---- MODULE Spec2Model ----
(***************************************************************************)
(* Model of addon.py (parents-guide-stremio): the keyword severity         *)
(* classifier, the age-rating aggregator, the reason formatter, the page   *)
(* parser, the memoized rating lookup and the endpoints that gate on it.   *)
(*                                                                         *)
(* Python strings are modelled as sequences of one-character strings, so   *)
(* that lower(), strip(), split(), replace(), the `in` substring test and  *)
(* the regular expressions are computed, not assumed.                      *)
(***************************************************************************)
EXTENDS Integers, Sequences, FiniteSets, TLC

VARIABLES
    input,      \* argument of the pure function under test
    call,       \* the function applied to it, its locals at return, its result
    upstream,   \* what the upstream serves for each title
    cache,      \* the simple cache: key -> [value, expires]
    now,        \* the clock
    req,        \* per thread: the request it serves and its locals
    ALLOWED_AGE \* int(os.getenv('ALLOWED_AGE', 18)), read once at import

-----------------------------------------------------------------------------
(* Python str primitives                                                   *)

UpperChars == <<"A","B","C","D","E","F","G","H","I","J","K","L","M",
                "N","O","P","Q","R","S","T","U","V","W","X","Y","Z">>
LowerChars == <<"a","b","c","d","e","f","g","h","i","j","k","l","m",
                "n","o","p","q","r","s","t","u","v","w","x","y","z">>

IsUpperChar(c) == \E i \in 1..Len(UpperChars) : UpperChars[i] = c
IsLowerChar(c) == \E i \in 1..Len(LowerChars) : LowerChars[i] = c
IsCased(c) == IsUpperChar(c) \/ IsLowerChar(c)

ToLowerChar(c) ==
    IF IsUpperChar(c)
    THEN LowerChars[CHOOSE i \in 1..Len(UpperChars) : UpperChars[i] = c]
    ELSE c

ToUpperChar(c) ==
    IF IsLowerChar(c)
    THEN UpperChars[CHOOSE i \in 1..Len(LowerChars) : LowerChars[i] = c]
    ELSE c

\* str.lower()
lower(s) == [i \in 1..Len(s) |-> ToLowerChar(s[i])]

\* str.upper()
upper(s) == [i \in 1..Len(s) |-> ToUpperChar(s[i])]

\* str.capitalize(): first character upper-cased, the rest lower-cased
capitalize(s) ==
    [i \in 1..Len(s) |-> IF i = 1 THEN ToUpperChar(s[i]) ELSE ToLowerChar(s[i])]

\* str.title(): a cased character is upper-cased when it follows an uncased
\* character (or starts the string) and lower-cased otherwise
title(s) ==
    [i \in 1..Len(s) |->
        IF i = 1 \/ ~IsCased(s[i - 1])
        THEN ToUpperChar(s[i])
        ELSE ToLowerChar(s[i])]

\* `sub in s`
Contains(sub, s) ==
    \E i \in 0..(Len(s) - Len(sub)) : SubSeq(s, i + 1, i + Len(sub)) = sub

\* s.find(sub, from): the least index >= from where sub starts, 0 when none
FindFrom(sub, s, from) ==
    LET at == {i \in from..(Len(s) - Len(sub) + 1) :
                  SubSeq(s, i, i + Len(sub) - 1) = sub}
    IN  IF at = {} THEN 0 ELSE CHOOSE i \in at : \A j \in at : i <= j

IsSpace(c) == c \in {" ", "\n", "\t", "\r"}

\* str.strip()
RECURSIVE strip(_)
strip(s) ==
    IF s = <<>> THEN s
    ELSE IF IsSpace(s[1]) THEN strip(Tail(s))
    ELSE IF IsSpace(s[Len(s)]) THEN strip(SubSeq(s, 1, Len(s) - 1))
    ELSE s

\* str.split(sep) for a non-empty separator: the pieces between occurrences
RECURSIVE split(_, _)
split(s, sep) ==
    LET at == FindFrom(sep, s, 1)
    IN  IF at = 0 THEN <<s>>
        ELSE <<SubSeq(s, 1, at - 1)>> \o split(SubSeq(s, at + Len(sep), Len(s)), sep)

\* str.replace(old, new) for a non-empty old: leftmost occurrences, left to right
RECURSIVE replace(_, _, _)
replace(s, old, new) ==
    LET at == FindFrom(old, s, 1)
    IN  IF at = 0 THEN s
        ELSE SubSeq(s, 1, at - 1) \o new \o replace(SubSeq(s, at + Len(old), Len(s)), old, new)

\* sep.join(parts)
RECURSIVE join(_, _)
join(sep, parts) ==
    IF parts = <<>> THEN <<>>
    ELSE IF Len(parts) = 1 THEN parts[1]
    ELSE parts[1] \o sep \o join(sep, Tail(parts))

-----------------------------------------------------------------------------
(* Configuration tables                                                    *)

s_none     == <<"n","o","n","e">>
s_minimal  == <<"m","i","n","i","m","a","l">>
s_mild     == <<"m","i","l","d">>
s_moderate == <<"m","o","d","e","r","a","t","e">>
s_strong   == <<"s","t","r","o","n","g">>

s_nudity      == <<"n","u","d","i","t","y">>
s_violence    == <<"v","i","o","l","e","n","c","e">>
s_profanity   == <<"p","r","o","f","a","n","i","t","y">>
s_frightening == <<"f","r","i","g","h","t","e","n","i","n","g">>
s_alcohol     == <<"a","l","c","o","h","o","l">>
s_spoilers    == <<"s","p","o","i","l","e","r","s">>

\* the weight dict every scored category carries
SeverityWeights ==
    (s_none :> 0) @@ (s_minimal :> 1) @@ (s_mild :> 2) @@ (s_moderate :> 3) @@ (s_strong :> 4)

\* CONTENT_WEIGHTS, in insertion order; 'spoilers' maps to the int 0, not a dict
CONTENT_WEIGHTS ==
    << [k |-> s_nudity,      isdict |-> TRUE,  w |-> SeverityWeights],
       [k |-> s_violence,    isdict |-> TRUE,  w |-> SeverityWeights],
       [k |-> s_profanity,   isdict |-> TRUE,  w |-> SeverityWeights],
       [k |-> s_frightening, isdict |-> TRUE,  w |-> SeverityWeights],
       [k |-> s_alcohol,     isdict |-> TRUE,  w |-> SeverityWeights],
       [k |-> s_spoilers,    isdict |-> FALSE, w |-> 0] >>

\* `category in CONTENT_WEIGHTS`
InContentWeights(category) ==
    \E i \in 1..Len(CONTENT_WEIGHTS) : CONTENT_WEIGHTS[i].k = category

\* CONTENT_WEIGHTS[category]
WeightsOf(category) ==
    CONTENT_WEIGHTS[CHOOSE i \in 1..Len(CONTENT_WEIGHTS) : CONTENT_WEIGHTS[i].k = category]

SEVERITY_KEYWORDS ==
    (s_none     :> << <<"n","o">>, <<"n","o","n","e">>, <<"c","l","e","a","n">>, <<"f","a","m","i","l","y","-","f","r","i","e","n","d","l","y">>, <<"c","h","i","l","d","r","e","n">> >>) @@
    (s_minimal  :> << <<"v","e","r","y"," ","m","i","l","d">>, <<"b","r","i","e","f">>, <<"c","a","r","t","o","o","n">>, <<"b","a","c","k","g","r","o","u","n","d">>, <<"d","i","s","t","a","n","t">> >>) @@
    (s_mild     :> << <<"m","i","l","d">>, <<"s","o","m","e">>, <<"m","i","n","o","r">>, <<"l","i","g","h","t">>, <<"s","u","g","g","e","s","t","e","d">> >>) @@
    (s_moderate :> << <<"m","o","d","e","r","a","t","e">>, <<"s","e","v","e","r","a","l">>, <<"b","l","o","o","d">>, <<"f","i","g","h","t","i","n","g">>, <<"p","a","r","t","i","a","l">> >>) @@
    (s_strong   :> << <<"g","r","a","p","h","i","c">>, <<"e","x","t","r","e","m","e">>, <<"i","n","t","e","n","s","e">>, <<"e","x","p","l","i","c","i","t">>, <<"s","e","v","e","r","e">> >>)

-----------------------------------------------------------------------------
(* determine_severity                                                      *)

\* for keyword in SEVERITY_KEYWORDS[severity]: if keyword in content_lower
AnyKeywordIn(severity, content_lower) ==
    \E j \in 1..Len(SEVERITY_KEYWORDS[severity]) :
        Contains(SEVERITY_KEYWORDS[severity][j], content_lower)

\* for severity in [...]: the first severity of the list with a keyword in the
\* text, <<>> when the loop falls through
RECURSIVE FirstSeverity(_, _)
FirstSeverity(severities, content_lower) ==
    IF severities = <<>> THEN <<>>
    ELSE IF AnyKeywordIn(Head(severities), content_lower) THEN Head(severities)
    ELSE FirstSeverity(Tail(severities), content_lower)

\* the tiers scanned mildest-first
determine_severity_mildest_first(content) ==
    LET content_lower == lower(content)
        found == FirstSeverity(<<s_minimal, s_mild, s_moderate, s_strong>>, content_lower)
    IN  IF found # <<>> THEN found
        ELSE IF AnyKeywordIn(s_none, content_lower) THEN s_none
        ELSE s_minimal

determine_severity(content) ==
    LET content_lower == lower(content)
        found == FirstSeverity(<<s_strong, s_moderate, s_mild, s_minimal>>, content_lower)
    IN  IF found # <<>> THEN found
        ELSE IF AnyKeywordIn(s_none, content_lower) THEN s_none
        ELSE s_minimal

-----------------------------------------------------------------------------
(* calculate_age_rating                                                    *)

\* [item.strip() for item in content.split('*') if item.strip()]
RECURSIVE StripNonEmpty(_)
StripNonEmpty(pieces) ==
    IF pieces = <<>> THEN <<>>
    ELSE IF strip(Head(pieces)) = <<>> THEN StripNonEmpty(Tail(pieces))
    ELSE <<strip(Head(pieces))>> \o StripNonEmpty(Tail(pieces))

ItemsOf(content) == StripNonEmpty(split(content, <<"*">>))

\* CONTENT_WEIGHTS[category].get(severity, 0)
WeightGet(category, severity) ==
    IF severity \in DOMAIN WeightsOf(category).w THEN WeightsOf(category).w[severity] ELSE 0

\* the inner loop over one category's items: each item with the severity
\* determine_severity gives it, in loop order
ClassifyItems(category, items) ==
    [i \in 1..Len(items) |->
        [category |-> category, item |-> items[i],
         severity |-> determine_severity(items[i])]]

\* the `continue` test of the outer loop
Skipped(category, content) ==
    content = <<>> \/ ~InContentWeights(category) \/ category = s_spoilers

\* the outer loop over sections_data.items(): every item the loops classify
RECURSIVE ClassifiedItems(_)
ClassifiedItems(sections_data) ==
    IF sections_data = <<>> THEN <<>>
    ELSE (IF Skipped(Head(sections_data).k, Head(sections_data).v)
          THEN <<>>
          ELSE ClassifyItems(Head(sections_data).k, ItemsOf(Head(sections_data).v)))
         \o ClassifiedItems(Tail(sections_data))

\* score += CONTENT_WEIGHTS[category].get(severity, 0), guarded by isinstance
RECURSIVE ScoreOf(_)
ScoreOf(classified) ==
    IF classified = <<>> THEN 0
    ELSE (IF WeightsOf(Head(classified).category).isdict
          THEN WeightGet(Head(classified).category, Head(classified).severity)
          ELSE 0)
         + ScoreOf(Tail(classified))

\* the value of score when the loops end
SectionsScore(sections_data) == ScoreOf(ClassifiedItems(sections_data))

\* the thresholds compared strictly
AgeOfScoreStrict(score) ==
    IF score > 15 THEN 18
    ELSE IF score > 10 THEN 16
    ELSE IF score > 7 THEN 13
    ELSE IF score > 4 THEN 10
    ELSE IF score > 2 THEN 8
    ELSE 6

\* the threshold chain
AgeOfScore(score) ==
    IF score >= 15 THEN 18
    ELSE IF score >= 10 THEN 16
    ELSE IF score >= 7 THEN 13
    ELSE IF score >= 4 THEN 10
    ELSE IF score >= 2 THEN 8
    ELSE 6

calculate_age_rating(sections_data) == AgeOfScore(SectionsScore(sections_data))

-----------------------------------------------------------------------------
(* get_rating_reasons                                                      *)

\* (?=\[|$) at offset n of rest (n characters consumed): the next character is
\* '[', or the string ends here, or only a final newline follows
LookaheadAt(rest, n) ==
    \/ n = Len(rest)
    \/ n < Len(rest) /\ rest[n + 1] = "["
    \/ n = Len(rest) - 1 /\ rest[Len(rest)] = "\n"

\* (.*?) under re.DOTALL: the shortest prefix of rest after which the
\* lookahead holds
LazyCapture(rest) ==
    LET n == CHOOSE m \in 0..Len(rest) :
                 /\ LookaheadAt(rest, m)
                 /\ \A l \in 0..(m - 1) : ~LookaheadAt(rest, l)
    IN  SubSeq(rest, 1, n)

\* re.search(f'\\[{category.upper()}\\](.*?)(?=\\[|$)', content,
\*           re.DOTALL | re.IGNORECASE): [matched, group(1)]
SearchCategory(category, content) ==
    LET header == <<"[">> \o upper(category) \o <<"]">>
        at == FindFrom(lower(header), lower(content), 1)
    IN  IF at = 0
        THEN [matched |-> FALSE, group1 |-> <<>>]
        ELSE [matched |-> TRUE,
              group1 |-> LazyCapture(SubSeq(content, at + Len(header), Len(content)))]

\* the loop body without the test for a blank capture
CategorySeverityBlankAllowed(category, content) ==
    LET match == SearchCategory(category, content)
    IN  IF match.matched THEN determine_severity(match.group1) ELSE <<>>

\* the severity the loop body derives for one category: determine_severity of
\* the captured text when the header matched and the capture is not blank,
\* <<>> when the body classifies nothing
CategorySeverity(category, content) ==
    LET match == SearchCategory(category, content)
    IN  IF match.matched /\ strip(match.group1) # <<>>
        THEN determine_severity(match.group1)
        ELSE <<>>

\* the reasons list after the loop has run over the given categories
RECURSIVE ReasonsOver(_, _)
ReasonsOver(weights, content) ==
    IF weights = <<>> THEN <<>>
    ELSE LET category == Head(weights).k
             severity == CategorySeverity(category, content)
         IN  (IF category # s_spoilers /\ severity # <<>> /\ severity # s_none
              THEN << title(category) \o <<" ", "(">> \o severity \o <<")">> >>
              ELSE <<>>)
             \o ReasonsOver(Tail(weights), content)

get_rating_reasons(content) ==
    LET reasons == ReasonsOver(CONTENT_WEIGHTS, content)
    IN  IF reasons # <<>> THEN join(<<",", " ">>, reasons)
        ELSE <<"S","u","i","t","a","b","l","e"," ","f","o","r"," ","a","l","l"," ","a","g","e","s">>

-----------------------------------------------------------------------------
(* The description block scrape_movie renders from sections_data          *)

s_mpa_rating == <<"m","p","a","_","r","a","t","i","n","g">>

RECURSIVE RenderDescription(_)
RenderDescription(sections_data) ==
    IF sections_data = <<>> THEN <<>>
    ELSE LET category == Head(sections_data).k
             severity == Head(sections_data).v
         IN  (IF category = s_mpa_rating
              THEN <<"[","M","P","A"," ","R","a","t","i","n","g","]","\n","R","a","t","e","d"," ">> \o severity \o <<"\n">>
              ELSE <<"[">> \o title(replace(category, <<"_">>, <<" ">>)) \o <<"]", "\n">>
                   \o capitalize(severity) \o <<"\n">>)
             \o RenderDescription(Tail(sections_data))

-----------------------------------------------------------------------------
(* The documents get_soup returns                                          *)
(*                                                                         *)
(* A parsed page is modelled by what the queries of parse_content_rating   *)
(* and scrape_movie find in it: the text node matching 'Motion Picture     *)
(* Rating' (its parent, the parent's next sibling and that sibling's       *)
(* text), for each category label the node after it and its text, the      *)
(* og:title meta tag and the h1 tag.                                       *)

NetworkErrors == {"Timeout", "ConnectionError", "HTTPError"}

NoSoup == [prettify_raises |-> FALSE,
           mpa |-> [found |-> FALSE, parent |-> FALSE, sibling |-> FALSE, text |-> <<>>],
           cats |-> <<>>,
           og |-> [present |-> FALSE, content |-> <<>>],
           h1 |-> [present |-> FALSE, text |-> <<>>]]

\* the outcome of requests.get + raise_for_status + BeautifulSoup(...)
Failed(error) == [ok |-> FALSE, error |-> error, soup |-> NoSoup]
Fetched(soup) == [ok |-> TRUE, error |-> "", soup |-> soup]

\* get_soup: the soup, or None (modelled by ok = FALSE) when anything raised
get_soup(outcome) == [none |-> ~outcome.ok, soup |-> outcome.soup]

-----------------------------------------------------------------------------
(* parse_content_rating                                                    *)

content_categories ==
    << <<"S","e","x"," ","&"," ","N","u","d","i","t","y">>, <<"V","i","o","l","e","n","c","e"," ","&"," ","G","o","r","e">>, <<"P","r","o","f","a","n","i","t","y">>,
       <<"A","l","c","o","h","o","l",","," ","D","r","u","g","s"," ","&"," ","S","m","o","k","i","n","g">>, <<"F","r","i","g","h","t","e","n","i","n","g"," ","&"," ","I","n","t","e","n","s","e"," ","S","c","e","n","e","s">> >>

s_Unknown == <<"U","n","k","n","o","w","n">>

Digits == {"0", "1", "2", "3", "4", "5", "6", "7", "8", "9"}

\* \w
IsWordChar(c) == IsCased(c) \/ c \in Digits \/ c = "_"

\* the longest run of word characters of s starting at index i
RECURSIVE WordRun(_, _)
WordRun(s, i) ==
    IF i > Len(s) \/ ~IsWordChar(s[i]) THEN <<>>
    ELSE <<s[i]>> \o WordRun(s, i + 1)

\* re.search(r'Rated (\w+)', mpa_text): [matched, group(1)] of the leftmost match
RatedMatch(mpa_text) ==
    LET rated == <<"R","a","t","e","d"," ">>
        at == {i \in 1..(Len(mpa_text) - Len(rated) + 1) :
                  /\ SubSeq(mpa_text, i, i + Len(rated) - 1) = rated
                  /\ WordRun(mpa_text, i + Len(rated)) # <<>>}
    IN  IF at = {} THEN [matched |-> FALSE, group1 |-> <<>>]
        ELSE [matched |-> TRUE,
              group1 |-> WordRun(mpa_text,
                                 (CHOOSE i \in at : \A j \in at : i <= j) + Len(rated))]

\* the MPA block: raises when the parent has no next sibling (None.text)
MpaRaises(soup) == soup.mpa.found /\ soup.mpa.parent /\ ~soup.mpa.sibling

MpaRating(soup) ==
    IF soup.mpa.found /\ soup.mpa.parent /\ RatedMatch(strip(soup.mpa.text)).matched
    THEN RatedMatch(strip(soup.mpa.text)).group1
    ELSE s_Unknown

\* the chain with the moderate test moved to the front
NormalizeSeverityModerateFirst(severity_text) ==
    IF Contains(<<"m","o","d","e","r","a","t","e">>, severity_text) THEN s_moderate
    ELSE IF Contains(<<"s","e","v","e","r","e">>, severity_text) THEN s_strong
    ELSE IF Contains(<<"s","t","r","o","n","g">>, severity_text) THEN s_strong
    ELSE IF Contains(<<"m","i","l","d">>, severity_text) THEN s_mild
    ELSE IF Contains(<<"m","i","n","i","m","a","l">>, severity_text) THEN s_minimal
    ELSE s_none

\* the if/elif chain over severity_text
NormalizeSeverity(severity_text) ==
    IF Contains(<<"s","e","v","e","r","e">>, severity_text) THEN s_strong
    ELSE IF Contains(<<"s","t","r","o","n","g">>, severity_text) THEN s_strong
    ELSE IF Contains(<<"m","o","d","e","r","a","t","e">>, severity_text) THEN s_moderate
    ELSE IF Contains(<<"m","i","l","d">>, severity_text) THEN s_mild
    ELSE IF Contains(<<"m","i","n","i","m","a","l">>, severity_text) \/ Contains(<<"v","e","r","y"," ","m","i","l","d">>, severity_text)
         THEN s_minimal
    ELSE s_none

\* key = category.lower().replace(' & ', '').replace(',', '').replace(' ', '_')
CategoryKey(category) ==
    replace(replace(replace(lower(category), <<" ","&"," ">>, <<>>), <<",">>, <<>>),
            <<" ">>, <<"_">>)

\* one pass of the category loop: the entry it adds to categories
CategoryEntry(soup, i) ==
    [k |-> CategoryKey(content_categories[i]),
     v |-> IF soup.cats[i].label /\ soup.cats[i].next
           THEN NormalizeSeverity(lower(strip(soup.cats[i].text)))
           ELSE s_none]

\* the dict returned, in insertion order; <<>> is the {} of the except branch
parse_content_rating(soup) ==
    IF MpaRaises(soup) THEN <<>>
    ELSE << [k |-> s_mpa_rating, v |-> MpaRating(soup)] >>
         \o [i \in 1..Len(content_categories) |-> CategoryEntry(soup, i)]

-----------------------------------------------------------------------------
(* scrape_movie                                                            *)

s_UnknownTitle == <<"U","n","k","n","o","w","n"," ","T","i","t","l","e">>

\* the title: og:title content without the suffix, else the h1 text
TitleOf(soup) ==
    IF soup.og.present
    THEN strip(replace(soup.og.content, <<" ","P","a","r","e","n","t","a","l"," ","G","u","i","d","e"," ","|"," ","I","M","D","b">>, <<>>))
    ELSE IF soup.h1.present THEN strip(soup.h1.text)
    ELSE s_UnknownTitle

\* the value returned: none models the implicit None of falling off the end
\* when get_soup returned None; otherwise the list [description, title, rating]
scrape_movie(outcome) ==
    IF get_soup(outcome).none
    THEN [none |-> TRUE, data |-> <<>>]
    ELSE IF outcome.soup.prettify_raises
    THEN [none |-> FALSE, data |-> << <<"m","a","x","i","m","u","m"," ","r","e","c","u","r","s","i","o","n"," ","d","e","p","t","h"," ","e","x","c","e","e","d","e","d">>, s_UnknownTitle, 0 >>]
    ELSE IF parse_content_rating(outcome.soup) = <<>>
    THEN [none |-> FALSE,
          data |-> << <<"N","o"," ","p","a","r","e","n","t","a","l"," ","g","u","i","d","e"," ","a","v","a","i","l","a","b","l","e",".">>, s_UnknownTitle, 0 >>]
    ELSE [none |-> FALSE,
          data |-> << RenderDescription(parse_content_rating(outcome.soup)),
                      TitleOf(outcome.soup),
                      calculate_age_rating(parse_content_rating(outcome.soup)) >>]

-----------------------------------------------------------------------------
(* Inputs of the pure functions                                            *)

Labels == {s_none, s_minimal, s_mild, s_moderate, s_strong}

ScoredCategories == <<s_nudity, s_violence, s_profanity, s_frightening, s_alcohol>>

\* words the classifier is tried on: keywords of every tier, the five label
\* words, capitalised and upper-case forms, words that carry a keyword inside
\* them, and words with no keyword
Words ==
    { <<>>, <<"g","r","a","p","h","i","c">>, <<"S","e","v","e","r","e">>, <<"E","X","P","L","I","C","I","T">>, <<"s","t","r","o","n","g">>, <<"S","t","r","o","n","g">>,
      <<"m","o","d","e","r","a","t","e">>, <<"M","o","d","e","r","a","t","e">>, <<"b","l","o","o","d">>, <<"m","i","l","d">>, <<"M","i","l","d">>, <<"s","o","m","e">>,
      <<"v","e","r","y"," ","m","i","l","d">>, <<"b","r","i","e","f">>, <<"m","i","n","i","m","a","l">>, <<"M","i","n","i","m","a","l">>,
      <<"n","o">>, <<"n","o","n","e">>, <<"N","o","n","e">>, <<"c","l","e","a","n">>, <<"k","n","o","w">>, <<"s","c","e","n","e","s">>, <<"k","i","s","s","i","n","g">> }

TwoWords(a, b) ==
    IF a = <<>> THEN b ELSE IF b = <<>> THEN a ELSE a \o <<" ">> \o b

Texts == {TwoWords(a, b) : a \in Words, b \in Words}

\* category texts the aggregator is tried on: the label words, the empty text,
\* a keyword text and a bulleted text with an empty item
Contents ==
    Labels \cup { <<>>, <<"s","e","v","e","r","e">>, <<"b","l","o","o","d"," ","*"," ","g","r","a","p","h","i","c"," ","*"," "," ","*"," ","b","r","i","e","f">> }

Dict5(n, v, p, f, a) ==
    << [k |-> s_nudity, v |-> n], [k |-> s_violence, v |-> v],
       [k |-> s_profanity, v |-> p], [k |-> s_frightening, v |-> f],
       [k |-> s_alcohol, v |-> a] >>

\* dicts with a key outside CONTENT_WEIGHTS and with the unscored 'spoilers'
OtherDicts ==
    { << [k |-> s_mpa_rating, v |-> <<"P","G">>], [k |-> s_violence, v |-> c],
         [k |-> s_spoilers, v |-> d] >> : c \in Contents, d \in Contents }

SectionInputs ==
    {Dict5(n, v, p, f, a) : n \in Contents, v \in Contents, p \in Labels,
                            f \in Labels, a \in Labels}
    \cup OtherDicts

\* descriptions the formatter is tried on: rendered from label dicts over the
\* scored categories
DescriptionDicts ==
    { << [k |-> ScoredCategories[i], v |-> l] >> :
         i \in 1..Len(ScoredCategories), l \in Labels \cup {<<>>} }
    \cup { Dict5(n, v, p, f, a) : n \in {s_none, s_mild}, v \in {s_none, s_moderate},
                                  p \in {s_none, <<>>}, f \in {s_none, s_minimal},
                                  a \in {s_none, s_moderate} }
    \cup { << [k |-> s_alcohol, v |-> a], [k |-> s_nudity, v |-> n] >> :
              a \in {s_none, s_mild}, n \in {s_none, s_moderate} }
    \cup { << [k |-> s_mpa_rating, v |-> <<"P","G">>],
              [k |-> s_nudity, v |-> n], [k |-> s_violence, v |-> v],
              [k |-> s_profanity, v |-> p] >> : n \in Labels, v \in Labels, p \in Labels }

-----------------------------------------------------------------------------
(* getEpId                                                                 *)

\* Optional[str]
NoStr == [isnone |-> TRUE, str |-> <<>>]
Str(s) == [isnone |-> FALSE, str |-> s]

\* the value of a run of decimal digits
RECURSIVE DigitsValue(_)
DigitsValue(ds) ==
    IF ds = <<>> THEN 0
    ELSE 10 * DigitsValue(SubSeq(ds, 1, Len(ds) - 1))
         + (CHOOSE d \in 0..9 : <<"0","1","2","3","4","5","6","7","8","9">>[d + 1] = ds[Len(ds)])

\* int(s): surrounding whitespace and one sign allowed, then decimal digits;
\* anything else is a ValueError (ok = FALSE)
PyIntOf(s) ==
    LET body == strip(s)
        signed == body # <<>> /\ body[1] \in {"+", "-"}
        ds == IF signed THEN Tail(body) ELSE body
    IN  IF ds # <<>> /\ \A i \in 1..Len(ds) : ds[i] \in Digits
        THEN [ok |-> TRUE,
              int |-> IF signed /\ body[1] = "-" THEN 0 - DigitsValue(ds) ELSE DigitsValue(ds)]
        ELSE [ok |-> FALSE, int |-> 0]

\* seq[i] for a Python index i (0-based, negative from the end):
\* [ok, item], ok = FALSE for an IndexError
PyIndex(seq, i) ==
    IF i >= 0 /\ i < Len(seq) THEN [ok |-> TRUE, item |-> seq[i + 1]]
    ELSE IF i < 0 /\ 0 - i <= Len(seq) THEN [ok |-> TRUE, item |-> seq[Len(seq) + i + 1]]
    ELSE [ok |-> FALSE, item |-> <<>>]

\* [h for h in hrefs if '/title/' in h]
RECURSIVE TitleLinks(_)
TitleLinks(hrefs) ==
    IF hrefs = <<>> THEN <<>>
    ELSE (IF Contains(<<"/","t","i","t","l","e","/">>, Head(hrefs)) THEN <<Head(hrefs)>> ELSE <<>>)
         \o TitleLinks(Tail(hrefs))

\* a season page: whether div#episodes_content is there, and the href of every
\* <a href> inside it in document order
NoSeasonPage == [eplist |-> FALSE, hrefs |-> <<>>]
SeasonFailed(error) == [ok |-> FALSE, error |-> error, page |-> NoSeasonPage]
SeasonFetched(page) == [ok |-> TRUE, error |-> "", page |-> page]

\* getEpId(seriesID) against one outcome of the season page fetch; every
\* exception ends in the except branch, which returns None
getEpId(seriesID, outcome) ==
    LET parts == split(seriesID, <<"_">>)
        episode == PyIndex(parts, -1)
        season == PyIndex(parts, -2)
        links == TitleLinks(outcome.page.hrefs)
        number == PyIntOf(episode.item)
        ep_link == PyIndex(links, number.int - 1)
        ep_id == PyIndex(split(ep_link.item, <<"/">>), 2)
    IN  IF ~season.ok THEN NoStr
        ELSE IF ~outcome.ok THEN NoStr
        ELSE IF ~outcome.page.eplist THEN NoStr
        ELSE IF ~number.ok THEN NoStr
        ELSE IF number.int - 1 < Len(links)
             THEN IF ep_link.ok /\ ep_id.ok THEN Str(ep_id.item) ELSE NoStr
             ELSE NoStr

-----------------------------------------------------------------------------
(* format_season_episode                                                   *)

\* s.zfill(width): zeros on the left up to the width, after a leading sign
zfill(s, width) ==
    LET zeros == [i \in 1..(width - Len(s)) |-> "0"]
    IN  IF Len(s) >= width THEN s
        ELSE IF s # <<>> /\ s[1] \in {"+", "-"} THEN <<s[1]>> \o zeros \o Tail(s)
        ELSE zeros \o s

\* format_season_episode(id); the IndexError of parts[-2] ends in the except
\* branch
format_season_episode(id) ==
    LET parts == split(id, <<"_">>)
        season == PyIndex(parts, -2)
        episode == split(PyIndex(parts, -1).item, <<"-">>)[1]
    IN  IF ~season.ok THEN <<"S","0","0","E","0","0">>
        ELSE <<"S">> \o zfill(season.item, 2) \o <<"E">> \o zfill(episode, 2)

-----------------------------------------------------------------------------
(* fetch_imdb_popular and search_imdb                                      *)

\* a chart or search page: its rows (td.titleColumn / tr.findResult), each
\* with its first <a> (if any, and whether it has an href), the link text,
\* and for a search row the td.result_text (if any) and its text
NoRows == <<>>
ListFailed(error) == [ok |-> FALSE, error |-> error, rows |-> NoRows]
ListFetched(rows) == [ok |-> TRUE, error |-> "", rows |-> rows]

Row(href, text) ==
    [link |-> TRUE, hashref |-> TRUE, href |-> href, text |-> text,
     title_td |-> TRUE, td_text |-> text]

\* seq[:n]
Prefix(seq, n) == SubSeq(seq, 1, IF Len(seq) < n THEN Len(seq) ELSE n)

\* the items the loop of fetch_imdb_popular builds: [ok, items], ok = FALSE
\* when href.split('/')[2] raised
RECURSIVE PopularItems(_)
PopularItems(rows) ==
    IF rows = <<>> THEN [ok |-> TRUE, items |-> <<>>]
    ELSE LET row == Head(rows)
             imdb_id == PyIndex(split(row.href, <<"/">>), 2)
             rest == PopularItems(Tail(rows))
         IN  IF ~(row.link /\ row.hashref) THEN rest
             ELSE IF ~imdb_id.ok THEN [ok |-> FALSE, items |-> <<>>]
             ELSE [ok |-> rest.ok,
                   items |-> << [id |-> imdb_id.item, title |-> strip(row.text)] >>
                             \o rest.items]

fetch_imdb_popular(content_type, outcome) ==
    IF ~outcome.ok THEN <<>>
    ELSE IF ~PopularItems(Prefix(outcome.rows, 50)).ok THEN <<>>
    ELSE PopularItems(Prefix(outcome.rows, 50)).items

\* re.sub(r'\(.*?\)', '', title): every '(' up to the next ')' on the same
\* line is removed, left to right
RECURSIVE RemoveParens(_)
RemoveParens(s) ==
    LET open == FindFrom(<<"(">>, s, 1)
        close == IF open = 0 THEN 0 ELSE FindFrom(<<")">>, s, open + 1)
        sameline == close # 0 /\ ~Contains(<<"\n">>, SubSeq(s, open, close))
    IN  IF open = 0 THEN s
        ELSE IF sameline
             THEN SubSeq(s, 1, open - 1) \o RemoveParens(SubSeq(s, close + 1, Len(s)))
             ELSE SubSeq(s, 1, open) \o RemoveParens(SubSeq(s, open + 1, Len(s)))

RECURSIVE SearchItems(_)
SearchItems(rows) ==
    IF rows = <<>> THEN [ok |-> TRUE, items |-> <<>>]
    ELSE LET row == Head(rows)
             imdb_id == PyIndex(split(row.href, <<"/">>), 2)
             title0 == IF row.title_td THEN strip(row.td_text) ELSE s_UnknownTitle
             rest == SearchItems(Tail(rows))
         IN  IF ~(row.link /\ row.hashref) THEN rest
             ELSE IF ~imdb_id.ok THEN [ok |-> FALSE, items |-> <<>>]
             ELSE [ok |-> rest.ok,
                   items |-> << [id |-> imdb_id.item,
                                 title |-> strip(RemoveParens(title0))] >>
                             \o rest.items]

search_imdb(query, content_type, outcome) ==
    IF ~outcome.ok THEN <<>>
    ELSE IF ~SearchItems(Prefix(outcome.rows, 20)).ok THEN <<>>
    ELSE SearchItems(Prefix(outcome.rows, 20)).items

-----------------------------------------------------------------------------
(* Pages and fetch outcomes the operations are tried on                    *)

\* the node after a category label: its text; a label with no node after it;
\* no label at all
CatNode(text) == [label |-> TRUE, next |-> TRUE, text |-> text]
NoNext == [label |-> TRUE, next |-> FALSE, text |-> <<>>]
NoLabel == [label |-> FALSE, next |-> FALSE, text |-> <<>>]

MpaAbsent == [found |-> FALSE, parent |-> FALSE, sibling |-> FALSE, text |-> <<>>]
MpaNoSibling == [found |-> TRUE, parent |-> TRUE, sibling |-> FALSE, text |-> <<>>]
MpaNode(text) == [found |-> TRUE, parent |-> TRUE, sibling |-> TRUE, text |-> text]

MpaNodes ==
    { MpaAbsent, MpaNoSibling, MpaNode(<<" ","R","a","t","e","d"," ","R"," ","f","o","r"," ","s","t","r","o","n","g"," ","v","i","o","l","e","n","c","e"," ">>),
      MpaNode(<<"P","G","-","1","3">>) }

\* severity texts as the page shows them
SeverityTexts == { <<"N","o","n","e">>, <<"M","i","l","d">>, <<"M","o","d","e","r","a","t","e">>, <<"S","e","v","e","r","e">> }

MoreSeverityTexts ==
    { <<"S","t","r","o","n","g">>, <<"V","e","r","y"," ","M","i","l","d">>, <<"M","i","n","i","m","a","l">>, <<" ","m","o","d","e","r","a","t","e"," ","t","o"," ","s","e","v","e","r","e","\n">> }

Page(mpa, nudity, violence, profanity, alcohol, frightening) ==
    [prettify_raises |-> FALSE,
     mpa |-> mpa,
     cats |-> <<nudity, violence, profanity, alcohol, frightening>>,
     og |-> [present |-> TRUE, content |-> <<"U","p"," ","P","a","r","e","n","t","a","l"," ","G","u","i","d","e"," ","|"," ","I","M","D","b">>],
     h1 |-> [present |-> FALSE, text |-> <<>>]]

\* the same page with another title source
WithTitle(page, og, h1) == [page EXCEPT !.og = og, !.h1 = h1]

PlainPage == Page(MpaNode(<<"R","a","t","e","d"," ","G">>), CatNode(<<"N","o","n","e">>), CatNode(<<"N","o","n","e">>),
                  CatNode(<<"N","o","n","e">>), CatNode(<<"N","o","n","e">>), CatNode(<<"N","o","n","e">>))

GuidePages ==
    { Page(m, n, v, p, a, f) :
        m \in MpaNodes,
        n \in {CatNode(<<"N","o","n","e">>), CatNode(<<"S","e","v","e","r","e">>), NoLabel},
        v \in {CatNode(t) : t \in SeverityTexts} \cup {NoLabel, NoNext},
        p \in {CatNode(t) : t \in SeverityTexts \cup MoreSeverityTexts} \cup {NoLabel, NoNext},
        a \in {CatNode(<<"N","o","n","e">>), CatNode(<<"S","e","v","e","r","e">>)},
        f \in {CatNode(<<"N","o","n","e">>), CatNode(<<"M","o","d","e","r","a","t","e">>)} }
    \cup { WithTitle(PlainPage, [present |-> FALSE, content |-> <<>>],
                     [present |-> TRUE, text |-> <<" ","U","p"," ","\n">>]),
           WithTitle(PlainPage, [present |-> FALSE, content |-> <<>>],
                     [present |-> FALSE, text |-> <<>>]),
           [PlainPage EXCEPT !.prettify_raises = TRUE] }

GuideOutcomes ==
    {Failed(e) : e \in NetworkErrors} \cup {Fetched(p) : p \in GuidePages}

s_movie == <<"m","o","v","i","e">>
s_series == <<"s","e","r","i","e","s">>

\* the season pages getEpId is tried on
SeasonPages ==
    { [eplist |-> FALSE, hrefs |-> <<>>],
      [eplist |-> TRUE, hrefs |-> <<>>],
      [eplist |-> TRUE, hrefs |-> << <<"/","t","i","t","l","e","/","t","t","1","1","/">>, <<"/","h","e","l","p">>, <<"/","t","i","t","l","e","/","t","t","1","2","/","?","r","e","f","_","=","e","p">>, <<"/","t","i","t","l","e","/","t","t","1","3","/">> >>],
      [eplist |-> TRUE,
       hrefs |-> << <<"/","t","i","t","l","e","/","t","t","2","1","/">>, <<"/","t","i","t","l","e","/","t","t","2","2","/">>, <<"/","h","e","l","p">>, <<"/","t","i","t","l","e","/","t","t","2","3","/">>,
                    <<"/","t","i","t","l","e","/","t","t","2","4","/">>, <<"/","t","i","t","l","e","/","t","t","2","5","/">> >>] }

SeasonOutcomes ==
    {SeasonFailed(e) : e \in NetworkErrors} \cup {SeasonFetched(p) : p \in SeasonPages}

\* the chart and search pages the catalog is tried on
ListPages ==
    { <<>>,
      << Row(<<"/","t","i","t","l","e","/","t","t","1","/">>, <<" ","U","p"," ">>) >>,
      << Row(<<"/","t","i","t","l","e","/","t","t","2","/","?","r","e","f","_","=","c","h","a","r","t">>, <<"H","e","a","t"," ","(","1","9","9","5",")"," ","(","V","i","d","e","o",")">>), Row(<<"/","t","i","t","l","e","/","t","t","1","/">>, <<"U","p">>) >>,
      << [Row(<<>>, <<>>) EXCEPT !.link = FALSE, !.hashref = FALSE, !.title_td = FALSE],
         [Row(<<"/","t","i","t","l","e","/","t","t","1","/">>, <<"U","p">>) EXCEPT !.title_td = FALSE] >>,
      << Row(<<"/","t","i","t","l","e","/","t","t","2","/">>, <<"H","e","a","t">>), Row(<<"t","t","1">>, <<"U","p">>) >> }

ListOutcomes ==
    {ListFailed(e) : e \in NetworkErrors} \cup {ListFetched(rows) : rows \in ListPages}

\* the ids the stream route is asked for
StreamIds ==
    { <<"t","t","1">>, <<"t","t","2">>, <<"t","t","1","_","1","_","2">>, <<"t","t","2","%","3","A","1","%","3","A","3">>, <<"t","t","1","_","1","_","0">>, <<"t","t","1","_","1","_","9">>,
      <<"t","t","1","_","1","_","x">>, <<"g","p","g","-","t","t","1">>, <<"t","t","1","_","1","_","2","-","t","t","1","2">>, <<"t","t","3">> }

CatalogIds ==
    { <<"g","p","g","_","m","o","v","i","e","s","_","c","a","t","a","l","o","g">>, <<"g","p","g","_","s","e","r","i","e","s","_","c","a","t","a","l","o","g">>, <<"g","p","g","_","s","e","a","r","c","h","_","m","o","v","i","e">>,
      <<"g","p","g","_","s","e","a","r","c","h","_","s","e","r","i","e","s">>, <<"g","p","g","_","c","a","t","a","l","o","g">> }

Queries == { <<>>, <<"u","p">> }

Types == { s_movie, s_series }

\* values of the ALLOWED_AGE environment variable
AllowedAges == {0, 8, 18}

-----------------------------------------------------------------------------
(* The memoized lookup: @cache.memoize(timeout=3600) around                *)
(* get_age_rating_for_content, over the process-wide simple cache          *)

TTL == 3600

\* Optional[int]
PyNone == [isnone |-> TRUE, int |-> 0]
PyInt(n) == [isnone |-> FALSE, int |-> n]

tt1 == <<"t","t","1">>
tt2 == <<"t","t","2">>

Ids == {tt1, tt2}

Threads == {"t1", "t2"}

\* the documents the upstream can serve for a title
ProfanePage == [PlainPage EXCEPT !.cats[3] = CatNode(<<"M","o","d","e","r","a","t","e">>)]
BrokenPage == [PlainPage EXCEPT !.mpa = MpaNoSibling]

DocNames == {"plain", "profane", "broken"}

Documents ==
    [n \in DocNames |->
        CASE n = "plain" -> PlainPage
          [] n = "profane" -> ProfanePage
          [] n = "broken" -> BrokenPage]

\* what the upstream serves for a title: one of the documents, or nothing
\* while it is down
UpstreamStates == {"down"} \cup DocNames

\* the ways requests.get can end against an upstream state
OutcomesOf(u) ==
    IF u = "down"
    THEN {[ok |-> FALSE, error |-> e, doc |-> ""] : e \in NetworkErrors}
    ELSE {[ok |-> TRUE, error |-> "", doc |-> u]}

\* what get_soup has in hand after such an end
FetchResult(o) == IF o.ok THEN Fetched(Documents[o.doc]) ELSE Failed(o.error)

\* the instants at which the clock is read: around every multiple of the TTL
MaxPeriods == 1

Instants ==
    {t \in {k * TTL + e : k \in 0..MaxPeriods, e \in {-1, 0}} : t >= 0}

NoFetch == [done |-> FALSE, outcome |-> [ok |-> FALSE, error |-> "", doc |-> ""]]
DidFetch(outcome) == [done |-> TRUE, outcome |-> outcome]

NoRet == [kind |-> "pending", value |-> PyNone, exc |-> ""]
Return(value) == [kind |-> "return", value |-> value, exc |-> ""]
Raise(exc) == [kind |-> "raise", value |-> PyNone, exc |-> exc]

NoResp == [status |-> 0, streams |-> <<>>, metas |-> <<>>, age_rating |-> PyNone]

\* a request: the operation, where it stands, and its locals
IdleReq ==
    [op |-> "none", pc |-> "idle", type |-> <<>>, id |-> <<>>, imdb_id |-> <<>>,
     hit |-> FALSE, fetched |-> NoFetch, ret |-> NoRet,
     items |-> <<>>, idx |-> 0, metas |-> <<>>, resp |-> NoResp]

\* the request has run to its end (or none was made)
Finished(r) ==
    r.pc \in {"idle", "done"} \/ (r.op = "rating" /\ r.pc = "returned")

\* an entry still served at the instant it expires
CacheValidInclusive(c, key, t) == key \in DOMAIN c /\ c[key].expires >= t

\* SimpleCache.get: the stored value while the entry has not expired
CacheValid(c, key, t) == key \in DOMAIN c /\ c[key].expires > t

\* len(data) >= 3 ? data[2] : None, for a data that is a list
RatingOfData(data) ==
    IF Len(data) >= 3 THEN PyInt(data[3]) ELSE PyNone

\* every way a fetch of the parental guide can end
GuideFetches == UNION {OutcomesOf(u) : u \in UpstreamStates}

\* scrape_movie tabulated over those
Scraped == [o \in GuideFetches |-> scrape_movie(FetchResult(o))]

\* what the upstream serves for a title; a title it does not know is a 404
UpstreamOf(imdb_id) ==
    IF imdb_id \in DOMAIN upstream THEN upstream[imdb_id] ELSE "down"

\* a direct call of get_age_rating_for_content(imdb_id)
StartRating(t, imdb_id) ==
    /\ Finished(req[t])
    /\ req' = [req EXCEPT ![t] = [IdleReq EXCEPT !.op = "rating", !.pc = "lookup",
                                                 !.imdb_id = imdb_id]]
    /\ UNCHANGED <<input, call, upstream, cache, now, ALLOWED_AGE>>

\* a wrapper that never reads the cache
LookupAlwaysMiss(t) ==
    /\ req[t].pc = "lookup"
    /\ req' = [req EXCEPT ![t].pc = "compute"]
    /\ UNCHANGED <<input, call, upstream, cache, now, ALLOWED_AGE>>

\* memoize: cache.get(cache_key); a stored None counts as not found
Lookup(t) ==
    /\ req[t].pc = "lookup"
    /\ IF CacheValid(cache, req[t].imdb_id, now) /\ ~cache[req[t].imdb_id].value.isnone
       THEN req' = [req EXCEPT ![t].pc = "returned", ![t].hit = TRUE,
                               ![t].ret = Return(cache[req[t].imdb_id].value)]
       ELSE req' = [req EXCEPT ![t].pc = "compute"]
    /\ UNCHANGED <<input, call, upstream, cache, now, ALLOWED_AGE>>

\* the body of get_age_rating_for_content: scrape_movie, then len(data), which
\* raises TypeError when scrape_movie returned None
Compute(t) ==
    /\ req[t].pc = "compute"
    /\ \E outcome \in OutcomesOf(UpstreamOf(req[t].imdb_id)) :
          LET data == Scraped[outcome]
          IN  IF data.none
              THEN req' = [req EXCEPT ![t].pc = "returned",
                                      ![t].fetched = DidFetch(outcome),
                                      ![t].ret = Raise("TypeError")]
              ELSE req' = [req EXCEPT ![t].pc = "store",
                                      ![t].fetched = DidFetch(outcome),
                                      ![t].ret = [NoRet EXCEPT !.value = RatingOfData(data.data)]]
    /\ UNCHANGED <<input, call, upstream, cache, now, ALLOWED_AGE>>

\* a store that leaves an entry that has not expired as it is
StoreKeepFirst(t) ==
    /\ req[t].pc = "store"
    /\ cache' = IF CacheValid(cache, req[t].imdb_id, now)
                THEN cache
                ELSE (req[t].imdb_id :> [value |-> req[t].ret.value, expires |-> now + TTL])
                     @@ cache
    /\ req' = [req EXCEPT ![t].pc = "returned", ![t].ret = Return(req[t].ret.value)]
    /\ UNCHANGED <<input, call, upstream, now, ALLOWED_AGE>>

\* memoize: cache.set(cache_key, rv, timeout=3600), then return rv
Store(t) ==
    /\ req[t].pc = "store"
    /\ cache' = (req[t].imdb_id :> [value |-> req[t].ret.value, expires |-> now + TTL])
                @@ cache
    /\ req' = [req EXCEPT ![t].pc = "returned", ![t].ret = Return(req[t].ret.value)]
    /\ UNCHANGED <<input, call, upstream, now, ALLOWED_AGE>>

\* the upstream page of a title changes, or the upstream goes down or comes back
UpstreamChange(imdb_id, u) ==
    /\ upstream[imdb_id] # u
    /\ upstream' = [upstream EXCEPT ![imdb_id] = u]
    /\ UNCHANGED <<input, call, cache, now, req, ALLOWED_AGE>>

\* time passes
Tick(t) ==
    /\ t > now
    /\ now' = t
    /\ UNCHANGED <<input, call, upstream, cache, req, ALLOWED_AGE>>

-----------------------------------------------------------------------------
(* addon_stream and addon_catalog: the endpoints that gate on the rating   *)

\* the gate both endpoints apply to the looked-up rating
Blocked(age_rating, allowed) ==
    age_rating.isnone \/ age_rating.int > allowed

\* respond_with(body, status)
StreamsResp(type, id) ==
    [NoResp EXCEPT !.status = 200,
                   !.streams = << <<"s","t","r","e","m","i","o",":","/","/","/","d","e","t","a","i","l","/">> \o type \o <<"/","g","p","g","-">> \o id >>]
BlockedResp(age_rating) == [NoResp EXCEPT !.status = 403, !.age_rating = age_rating]
ErrorResp == [NoResp EXCEPT !.status = 500]
MetasResp(metas) == [NoResp EXCEPT !.status = 200, !.metas = metas]

\* id.split('-')[-1] if '-' in id else id.split('_')[0]
StreamImdbId(id) ==
    IF Contains(<<"-">>, id)
    THEN split(id, <<"-">>)[Len(split(id, <<"-">>))]
    ELSE split(id, <<"_">>)[1]

\* GET /stream/<type>/<id>.json up to the rating lookup; abort(404) is raised
\* inside the try and ends in the handler's except branch
StartStream(t, type, id) ==
    /\ Finished(req[t])
    /\ LET id1 == replace(id, <<"%","3","A">>, <<"_">>)
       IN  IF Contains(<<"g","p","g">>, id1)
           THEN req' = [req EXCEPT ![t] = [IdleReq EXCEPT !.op = "stream", !.pc = "done",
                                                        !.type = type, !.id = id1,
                                                        !.resp = ErrorResp]]
           ELSE req' = [req EXCEPT ![t] = [IdleReq EXCEPT !.op = "stream", !.pc = "lookup",
                                                        !.type = type, !.id = id1,
                                                        !.imdb_id = StreamImdbId(id1)]]
    /\ UNCHANGED <<input, call, upstream, cache, now, ALLOWED_AGE>>

\* the rest of addon_stream, once get_age_rating_for_content has come back
StreamGate(t) ==
    /\ req[t].op = "stream"
    /\ req[t].pc = "returned"
    /\ IF req[t].ret.kind = "raise"
       THEN req' = [req EXCEPT ![t].pc = "done", ![t].resp = ErrorResp]
       ELSE IF Blocked(req[t].ret.value, ALLOWED_AGE)
       THEN req' = [req EXCEPT ![t].pc = "done", ![t].resp = BlockedResp(req[t].ret.value)]
       ELSE IF req[t].type = s_series
       THEN \E outcome \in SeasonOutcomes :
               LET ep_id == getEpId(req[t].id, outcome)
                   id2 == req[t].id \o <<"-">> \o ep_id.str
               IN  IF ~ep_id.isnone /\ ep_id.str # <<>>
                   THEN req' = [req EXCEPT ![t].pc = "done", ![t].id = id2,
                                           ![t].resp = StreamsResp(req[t].type, id2)]
                   ELSE req' = [req EXCEPT ![t].pc = "done", ![t].resp = ErrorResp]
       ELSE req' = [req EXCEPT ![t].pc = "done",
                               ![t].resp = StreamsResp(req[t].type, req[t].id)]
    /\ UNCHANGED <<input, call, upstream, cache, now, ALLOWED_AGE>>

\* the head of the item loop of addon_catalog: done, or the next lookup
CatalogLoop(r, items, idx, metas) ==
    IF idx <= Len(items)
    THEN [r EXCEPT !.pc = "lookup", !.items = items, !.idx = idx, !.metas = metas,
                   !.imdb_id = items[idx].id,
                   !.hit = FALSE, !.fetched = NoFetch, !.ret = NoRet]
    ELSE [r EXCEPT !.pc = "done", !.items = items, !.idx = idx, !.metas = metas,
                   !.resp = MetasResp(metas)]

\* GET /catalog/<type>/<id>.json?query=... up to the first rating lookup;
\* abort(400) is raised inside the try and becomes abort(500)
StartCatalog(t, type, id, query) ==
    /\ Finished(req[t])
    /\ LET r == [IdleReq EXCEPT !.op = "catalog", !.type = type, !.id = id]
       IN  IF id = <<"g","p","g","_","m","o","v","i","e","s","_","c","a","t","a","l","o","g">>
           THEN \E outcome \in ListOutcomes :
                   req' = [req EXCEPT ![t] =
                             CatalogLoop(r, fetch_imdb_popular(s_movie, outcome), 1, <<>>)]
           ELSE IF id = <<"g","p","g","_","s","e","r","i","e","s","_","c","a","t","a","l","o","g">>
           THEN \E outcome \in ListOutcomes :
                   req' = [req EXCEPT ![t] =
                             CatalogLoop(r, fetch_imdb_popular(s_series, outcome), 1, <<>>)]
           ELSE IF id = <<"g","p","g","_","s","e","a","r","c","h","_","m","o","v","i","e">> \/ id = <<"g","p","g","_","s","e","a","r","c","h","_","s","e","r","i","e","s">>
           THEN IF query = <<>>
                THEN req' = [req EXCEPT ![t] = [r EXCEPT !.pc = "done",
                                                         !.resp = MetasResp(<<>>)]]
                ELSE \E outcome \in ListOutcomes :
                        req' = [req EXCEPT ![t] =
                                  CatalogLoop(r, search_imdb(query,
                                                 IF Contains(s_movie, id) THEN s_movie
                                                                          ELSE s_series,
                                                 outcome), 1, <<>>)]
           ELSE req' = [req EXCEPT ![t] = [r EXCEPT !.pc = "done", !.resp = ErrorResp]]
    /\ UNCHANGED <<input, call, upstream, cache, now, ALLOWED_AGE>>

\* the body of the item loop, once get_age_rating_for_content has come back
CatalogFilter(t) ==
    /\ req[t].op = "catalog"
    /\ req[t].pc = "returned"
    /\ LET r == req[t]
           item == r.items[r.idx]
           meta == [id |-> <<"g","p","g","-">> \o item.id, type |-> r.type, name |-> item.title,
                    ageRating |-> r.ret.value.int]
       IN  IF r.ret.kind = "raise"
           THEN req' = [req EXCEPT ![t].pc = "done", ![t].resp = ErrorResp]
           ELSE IF Blocked(r.ret.value, ALLOWED_AGE)
           THEN req' = [req EXCEPT ![t] = CatalogLoop(r, r.items, r.idx + 1, r.metas)]
           ELSE req' = [req EXCEPT ![t] =
                          CatalogLoop(r, r.items, r.idx + 1, Append(r.metas, meta))]
    /\ UNCHANGED <<input, call, upstream, cache, now, ALLOWED_AGE>>

svcvars == <<upstream, cache, now, req, ALLOWED_AGE>>

vars == <<input, call, upstream, cache, now, req, ALLOWED_AGE>>

\* the state after import: an empty cache, no request
SvcIdle ==
    /\ cache = <<>>
    /\ now = 0
    /\ req = [t \in Threads |-> IdleReq]

Init ==
    /\ input = [kind |-> "none"]
    /\ call = [fn |-> "init"]
    /\ SvcIdle
    /\ ALLOWED_AGE = 18
    /\ upstream \in [Ids -> UpstreamStates]

Next ==
    \/ \E imdb_id \in Ids : StartRating("t1", imdb_id)
    \/ Lookup("t1")
    \/ Compute("t1")
    \/ Store("t1")
    \/ \E imdb_id \in Ids : \E u \in UpstreamStates : UpstreamChange(imdb_id, u)
    \/ \E t \in Instants : Tick(t)

Spec == Init /\ [][Next]_vars

-----------------------------------------------------------------------------
(* Specification of concurrent lookups: two request threads call           *)
(* get_age_rating_for_content for the same title; the cache read, the      *)
(* computation and the cache write of a call are separate steps, nothing   *)
(* in the code makes them atomic                                           *)

ConcInit ==
    /\ Init
    /\ upstream[tt2] = "down"

ConcNext ==
    \/ \E t \in Threads : StartRating(t, tt1)
    \/ \E t \in Threads : Lookup(t)
    \/ \E t \in Threads : Compute(t)
    \/ \E t \in Threads : Store(t)
    \/ \E u \in UpstreamStates : UpstreamChange(tt1, u)
    \/ \E t \in Instants : Tick(t)

SpecConc == ConcInit /\ [][ConcNext]_vars

-----------------------------------------------------------------------------
(* addon_meta                                                              *)

\* GET /meta/<type>/<id>.json against one outcome of the guide fetch: the
\* status and body of the response. scrape_movie is called directly, not
\* through the cache; len(None) and every other exception end in the 500 of
\* the except branch.
addon_meta(type, id, outcome, allowed) ==
    LET data == scrape_movie(outcome)
        content == data.data[1]
        title_ == data.data[2]
        age_rating == data.data[3]
        NoMeta == [id |-> <<>>, type |-> <<>>, name |-> <<>>, description |-> <<>>,
                   ageRating |-> 0, ageRatingReason |-> <<>>]
    IN  IF data.none
        THEN [status |-> 500, meta |-> NoMeta, age_rating |-> 0]
        ELSE IF age_rating > allowed
        THEN [status |-> 403, meta |-> NoMeta, age_rating |-> age_rating]
        ELSE [status |-> 200,
              meta |-> [id |-> id,
                        type |-> type,
                        name |-> IF type = s_series
                                 THEN title_ \o <<" ">> \o format_season_episode(id)
                                 ELSE title_,
                        description |-> <<"P","a","r","e","n","t","'","s"," ","G","u","i","d","e",":","\n">> \o content,
                        ageRating |-> age_rating,
                        ageRatingReason |-> get_rating_reasons(content)],
              age_rating |-> 0]

-----------------------------------------------------------------------------
(* Specification of the endpoints: requests are served one at a time over  *)
(* the shared cache, for one configured allowed age and one state of the   *)
(* upstream                                                                *)

GateInit ==
    /\ input = [kind |-> "none"]
    /\ call = [fn |-> "init"]
    /\ SvcIdle
    /\ ALLOWED_AGE \in AllowedAges
    /\ upstream \in [Ids -> UpstreamStates]

GateNext ==
    \/ \E type \in Types : \E id \in StreamIds : StartStream("t1", type, id)
    \/ \E type \in Types : \E id \in CatalogIds : \E query \in Queries :
          StartCatalog("t1", type, id, query)
    \/ Lookup("t1")
    \/ Compute("t1")
    \/ Store("t1")
    \/ StreamGate("t1")
    \/ CatalogFilter("t1")

SpecGate == GateInit /\ [][GateNext]_vars

-----------------------------------------------------------------------------
(* Specification of the pure functions: an input is drawn, one function is *)
(* applied to it                                                           *)

FnInit ==
    /\ SvcIdle
    /\ ALLOWED_AGE = 18
    /\ upstream = [i \in Ids |-> "down"]
    /\ call = [fn |-> "init"]
    /\ \/ input \in {[kind |-> "text", v |-> t] : t \in Texts}
       \/ input \in {[kind |-> "sections", v |-> s] : s \in SectionInputs}
       \/ input \in {[kind |-> "description", v |-> d] : d \in DescriptionDicts}
       \/ input \in {[kind |-> "fetch", v |-> o] : o \in GuideOutcomes}
       \/ input \in {[kind |-> "meta", v |-> o] :
                        o \in {g \in GuideOutcomes :
                                  \/ ~g.ok
                                  \/ /\ g.soup.mpa \in {MpaAbsent, MpaNoSibling, PlainPage.mpa}
                                     /\ g.soup.cats[1] = CatNode(<<"N","o","n","e">>)
                                     /\ g.soup.cats[4] = CatNode(<<"N","o","n","e">>)
                                     /\ g.soup.cats[5] = CatNode(<<"N","o","n","e">>)}}
       \/ input \in {[kind |-> "episode", v |-> [seriesID |-> i, outcome |-> o]] :
                        i \in { <<"t","t","1","_","1","_","1">>, <<"t","t","1","_","1","_","3">>, <<"t","t","1","_","1","_","5">>, <<"t","t","1","_","1","_","6">>,
                                <<"t","t","1","_","1","_","0">>, <<"t","t","1","_","1","_","-","1">>, <<"t","t","1","_","1","_","-","6">>, <<"t","t","1","_","1","_","x">>,
                                <<"t","t","1","_","1","_","3","-","t","t","0","0","0","0","0","0","1">>, <<"t","t","1","_","2">>, <<"t","t","1">> },
                        o \in SeasonOutcomes}
       \/ input \in {[kind |-> "composite", v |-> i] :
                        i \in { <<"t","t","1","_","1","_","2">>, <<"t","t","1","_","1","2","_","3">>, <<"t","t","1","_","1","_","3","-","t","t","0","0","0","0","0","0","1">>,
                                <<"t","t","1","_","1","_","1","0","-","t","t","5">>, <<"t","t","1","%","3","A","1","%","3","A","2">>, <<"t","t","1","_","1","_","x">>,
                                <<"t","t","1","_","x","_","2">>, <<"t","t","1","_","2">>, <<"t","t","1">>, <<"g","p","g","-","t","t","1">>, <<>>,
                                <<"t","t","1","_","1","_">>, <<"t","t","1","_","1","_","-","1">>, <<"t","t","1","_","_","2">> }}

DetermineSeverity ==
    /\ call.fn = "init"
    /\ input.kind = "text"
    /\ call' = [fn |-> "determine_severity", ret |-> determine_severity(input.v)]
    /\ UNCHANGED <<input, svcvars>>

CalculateAgeRating ==
    /\ call.fn = "init"
    /\ input.kind = "sections"
    /\ call' = [fn |-> "calculate_age_rating",
                classified |-> ClassifiedItems(input.v),
                score |-> SectionsScore(input.v),
                ret |-> calculate_age_rating(input.v)]
    /\ UNCHANGED <<input, svcvars>>

GetRatingReasons ==
    /\ call.fn = "init"
    /\ input.kind = "description"
    /\ call' = [fn |-> "get_rating_reasons",
                content |-> RenderDescription(input.v),
                severities |-> [i \in 1..Len(ScoredCategories) |->
                                   CategorySeverity(ScoredCategories[i],
                                                    RenderDescription(input.v))],
                ret |-> get_rating_reasons(RenderDescription(input.v))]
    /\ UNCHANGED <<input, svcvars>>

\* scrape_movie on one outcome of the upstream fetch
ScrapeMovie ==
    /\ call.fn = "init"
    /\ input.kind = "fetch"
    /\ call' = [fn |-> "scrape_movie",
                sections_data |-> IF input.v.ok /\ ~input.v.soup.prettify_raises
                                  THEN parse_content_rating(input.v.soup)
                                  ELSE <<>>,
                score |-> IF input.v.ok /\ ~input.v.soup.prettify_raises
                          THEN SectionsScore(parse_content_rating(input.v.soup))
                          ELSE 0,
                raised |-> FALSE,
                ret |-> scrape_movie(input.v)]
    /\ UNCHANGED <<input, svcvars>>

\* getEpId on one composite id and one outcome of the season page fetch
GetEpId ==
    /\ call.fn = "init"
    /\ input.kind = "episode"
    /\ call' = [fn |-> "getEpId",
                links |-> TitleLinks(input.v.outcome.page.hrefs),
                ret |-> getEpId(input.v.seriesID, input.v.outcome)]
    /\ UNCHANGED <<input, svcvars>>

\* addon_meta on one outcome of the upstream fetch
AddonMeta ==
    /\ call.fn = "init"
    /\ input.kind = "meta"
    /\ \E route \in { <<s_movie, <<"g","p","g","-","t","t","1">>>>, <<s_series, <<"g","p","g","-","t","t","1","_","1","_","2","-","t","t","1","2">>>> } :
          call' = [fn |-> "addon_meta",
                   type |-> route[1],
                   id |-> route[2],
                   sections_data |-> IF input.v.ok /\ ~input.v.soup.prettify_raises
                                     THEN parse_content_rating(input.v.soup)
                                     ELSE <<>>,
                   resp |-> addon_meta(route[1], route[2], input.v, ALLOWED_AGE)]
    /\ UNCHANGED <<input, svcvars>>

FormatSeasonEpisode ==
    /\ call.fn = "init"
    /\ input.kind = "composite"
    /\ call' = [fn |-> "format_season_episode", ret |-> format_season_episode(input.v)]
    /\ UNCHANGED <<input, svcvars>>

FnNext ==
    \/ DetermineSeverity
    \/ CalculateAgeRating
    \/ GetRatingReasons
    \/ ScrapeMovie
    \/ GetEpId
    \/ FormatSeasonEpisode
    \/ AddonMeta

SpecFn == FnInit /\ [][FnNext]_vars

-----------------------------------------------------------------------------
(* Claims about the pure functions, checked under SpecFn                   *)

\* a dict that assigns each of the five scored categories one severity label
IsLabelDict(d) ==
    /\ Len(d) = Len(ScoredCategories)
    /\ \A i \in 1..Len(d) : d[i].k = ScoredCategories[i] /\ d[i].v \in Labels

\* the weight the specification gives a severity label
LabelWeight(l) ==
    CASE l = s_none -> 0 [] l = s_minimal -> 1 [] l = s_mild -> 2
      [] l = s_moderate -> 3 [] l = s_strong -> 4

RECURSIVE LabelWeightSum(_)
LabelWeightSum(d) ==
    IF d = <<>> THEN 0 ELSE LabelWeight(Head(d).v) + LabelWeightSum(Tail(d))

\* the age tier the threshold table gives a score
TierOfScore(s) ==
    CASE s >= 15 -> 18
      [] s >= 10 /\ s <= 14 -> 16
      [] s >= 7 /\ s <= 9 -> 13
      [] s >= 4 /\ s <= 6 -> 10
      [] s >= 2 /\ s <= 3 -> 8
      [] s <= 1 -> 6

\* C1: for every mapping of the five scored categories to severity labels,
\* calculate_age_rating returns the age tier of the sum of the labels' weights
\* (none 0, minimal 1, mild 2, moderate 3, strong 4); all five at strong gives
\* score 20 and rating 18.
C1_LabelDictRating ==
    (call.fn = "calculate_age_rating" /\ IsLabelDict(input.v))
        => /\ call.score = LabelWeightSum(input.v)
           /\ call.ret = TierOfScore(LabelWeightSum(input.v))

\* C4: calculate_age_rating maps the summed score s >= 0 to the age rating by
\* the threshold table: s >= 15 gives 18, 10..14 gives 16, 7..9 gives 13,
\* 4..6 gives 10, 2..3 gives 8, s <= 1 gives 6.
C4_ThresholdTable ==
    call.fn = "calculate_age_rating"
        => /\ call.score >= 0
           /\ (call.score >= 15 => call.ret = 18)
           /\ (call.score \in 10..14 => call.ret = 16)
           /\ (call.score \in 7..9 => call.ret = 13)
           /\ (call.score \in 4..6 => call.ret = 10)
           /\ (call.score \in 2..3 => call.ret = 8)
           /\ (call.score <= 1 => call.ret = 6)

\* a call whose score sits exactly on the highest threshold
C4_Witness ==
    call.fn = "calculate_age_rating" /\ call.score = 15 /\ call.ret = 18

\* C5: for every label L of {none, minimal, mild, moderate, strong},
\* determine_severity returns L when applied to the label word as a bullet item
\* during scoring and when applied to the capitalised label text captured under
\* a bracketed header during reason extraction.
C5_StagesAgreeWithLabel ==
    /\ (call.fn = "calculate_age_rating" /\ IsLabelDict(input.v))
           => /\ Len(call.classified) = Len(input.v)
              /\ \A i \in 1..Len(input.v) : call.classified[i].severity = input.v[i].v
    /\ call.fn = "get_rating_reasons"
           => \A i \in 1..Len(input.v) : \A c \in 1..Len(ScoredCategories) :
                  input.v[i].k = ScoredCategories[c]
                      => call.severities[c] = input.v[i].v

\* the tiers with a keyword occurring in the lower-cased text
TiersIn(text) ==
    {t \in {s_strong, s_moderate, s_mild, s_minimal} :
        \E j \in 1..Len(SEVERITY_KEYWORDS[t]) :
            Contains(SEVERITY_KEYWORDS[t][j], lower(text))}

TierRank == (s_minimal :> 1) @@ (s_mild :> 2) @@ (s_moderate :> 3) @@ (s_strong :> 4)

NoneWords == { <<"n","o">>, <<"n","o","n","e">>, <<"c","l","e","a","n">>, <<"f","a","m","i","l","y","-","f","r","i","e","n","d","l","y">>, <<"c","h","i","l","d","r","e","n">> }

\* C6: determine_severity returns the strongest tier among strong > moderate >
\* mild > minimal that has a keyword occurring as a substring of the
\* lower-cased text, wherever the keywords occur; with no tier keyword it
\* returns none when a word of the none set occurs and minimal otherwise.
C6_StrongestTierWins ==
    call.fn = "determine_severity"
        => IF TiersIn(input.v) # {}
           THEN /\ call.ret \in TiersIn(input.v)
                /\ \A t \in TiersIn(input.v) : TierRank[t] <= TierRank[call.ret]
           ELSE IF \E w \in NoneWords : Contains(w, lower(input.v))
                THEN call.ret = s_none
                ELSE call.ret = s_minimal

\* a text with a mild-tier keyword before a strong-tier keyword classifies strong
C6_Witness ==
    /\ call.fn = "determine_severity"
    /\ input.v = <<"m","i","l","d"," ","g","r","a","p","h","i","c">>
    /\ call.ret = s_strong

\* the sum of the specification's weights over the five parsed categories
ParsedWeightSum(sections_data) ==
    LabelWeightSum(SelectSeq(sections_data, LAMBDA e : e.k # s_mpa_rating))

\* C2: in scrape_movie every one of the five categories the parser extracts
\* contributes its severity weight to the score behind the age rating: for
\* every fetched page the rating is the threshold tier of the sum over all
\* five parsed severities.
C2_AllFiveCategoriesScore ==
    (call.fn = "scrape_movie" /\ call.sections_data # <<>>)
        => /\ call.score = ParsedWeightSum(call.sections_data)
           /\ call.ret.data[3] = TierOfScore(ParsedWeightSum(call.sections_data))

-----------------------------------------------------------------------------
(* Claims about the memoized lookup, checked under Spec                    *)

\* the documents parse_content_rating cannot parse
UnparseableDocs == {n \in DocNames : parse_content_rating(Documents[n]) = <<>>}

\* the rating the pipeline computes from each document
RatingOfDocument == [n \in DocNames |-> scrape_movie(Fetched(Documents[n])).data[3]]

\* the computation of a lookup ended in a fetch failure or a parse failure
ComputationFailed(r) ==
    /\ r.fetched.done
    /\ \/ ~r.fetched.outcome.ok
       \/ r.fetched.outcome.doc \in UnparseableDocs

\* C7: when the upstream fetch or the parse fails during
\* get_age_rating_for_content(id) on an id with no valid cache entry, the call
\* returns unknown (None) and the cache then holds an entry for id with the
\* value unknown.
C7_FailureCachedAsUnknown ==
    \A t \in Threads :
        (req[t].op = "rating" /\ req[t].pc = "returned" /\ ComputationFailed(req[t]))
            => /\ req[t].ret = Return(PyNone)
               /\ req[t].imdb_id \in DOMAIN cache
               /\ cache[req[t].imdb_id].value = PyNone

\* C8: a lookup made while an entry for the id is less than the TTL old returns
\* the entry's value without fetching and leaves the cache alone, whatever the
\* upstream serves by then; a lookup made once the entry has expired re-runs
\* the pipeline, returns the rating of the document the upstream serves then
\* and stores it with the expiry now + TTL.
C8_StableWithinTTL ==
    [][\A t \in Threads :
          LET r == req[t]
              key == r.imdb_id
          IN  /\ (r.op = "rating" /\ r.pc = "lookup" /\ req'[t].pc # "lookup")
                     => IF key \in DOMAIN cache /\ now < cache[key].expires
                        THEN /\ req'[t].pc = "returned"
                             /\ req'[t].ret = Return(cache[key].value)
                             /\ ~req'[t].fetched.done
                             /\ cache' = cache
                        ELSE req'[t].pc = "compute"
              /\ (r.op = "rating" /\ r.pc = "compute" /\ req'[t].pc = "store")
                     => /\ req'[t].fetched.done
                        /\ req'[t].ret.value = PyInt(RatingOfDocument[upstream[key]])
              /\ (r.op = "rating" /\ r.pc = "store" /\ req'[t].pc = "returned")
                     => /\ req'[t].ret = Return(r.ret.value)
                        /\ cache'[key] = [value |-> r.ret.value, expires |-> now + TTL]
      ]_vars

\* a lookup just inside the TTL returns the stored 6 from the cache although
\* the upstream serves the other document by then
C8_Witness ==
    \E t \in Threads :
        /\ req[t].op = "rating"
        /\ req[t].pc = "returned"
        /\ req[t].hit
        /\ ~req[t].fetched.done
        /\ req[t].ret = Return(PyInt(6))
        /\ upstream[req[t].imdb_id] = "profane"
        /\ now = TTL - 1

\* C9: whatever the outcome of the upstream fetch, no core operation lets an
\* exception propagate to its caller: no call of get_age_rating_for_content
\* ends by raising.
C9_NoExceptionEscapes ==
    \A t \in Threads : req[t].ret.kind # "raise"

AgeRatings == {6, 8, 10, 13, 16, 18}

\* C10: every value get_age_rating_for_content returns and every value held in
\* a cache entry is one of the age ratings 6, 8, 10, 13, 16, 18 or unknown.
C10_OnlyTierValues ==
    /\ \A t \in Threads :
           req[t].ret.kind = "return"
               => req[t].ret.value.isnone \/ req[t].ret.value.int \in AgeRatings
    /\ \A key \in DOMAIN cache :
           cache[key].value.isnone \/ cache[key].value.int \in AgeRatings

-----------------------------------------------------------------------------
(* Claims about the endpoints, checked under SpecGate                      *)

\* the rating computation for the id fails against the upstream as it is
RatingFails(imdb_id) ==
    UpstreamOf(imdb_id) = "down" \/ UpstreamOf(imdb_id) \in UnparseableDocs

\* C3: whenever the rating computation for an id fails (the fetch fails or the
\* page cannot be parsed), the stream endpoint returns no stream for the id and
\* the catalog endpoint does not include the id in its list, for any allowed
\* age.
C3_FailedRatingBlocks ==
    \A t \in Threads :
        req[t].pc = "done"
            => /\ (req[t].op = "stream" /\ RatingFails(req[t].imdb_id))
                      => req[t].resp.streams = <<>>
               /\ req[t].op = "catalog"
                      => \A m \in 1..Len(req[t].resp.metas) :
                             \A i \in Ids :
                                 RatingFails(i) => req[t].resp.metas[m].id # <<"g","p","g","-">> \o i

-----------------------------------------------------------------------------
(* Claims about getEpId and format_season_episode, checked under SpecFn    *)

\* the last underscore-separated segment of a composite id
EpisodeSegment(id) == split(id, <<"_">>)[Len(split(id, <<"_">>))]

\* the identifier in a title link: the path segment after /title/
LinkId(href) == split(href, <<"/">>)[3]

\* C11: for a season page whose episode list holds n title links, getEpId with
\* episode number k returns the identifier of the k-th link in document order
\* when 1 <= k <= n, and no identifier when k > n and when k is 0 or negative.
C11_EpisodeIndex ==
    (/\ call.fn = "getEpId"
     /\ input.v.outcome.ok
     /\ input.v.outcome.page.eplist
     /\ Len(split(input.v.seriesID, <<"_">>)) >= 2
     /\ PyIntOf(EpisodeSegment(input.v.seriesID)).ok)
        => LET k == PyIntOf(EpisodeSegment(input.v.seriesID)).int
               n == Len(call.links)
           IN  /\ (k >= 1 /\ k <= n) => call.ret = Str(LinkId(call.links[k]))
               /\ (k > n \/ k <= 0) => call.ret = NoStr

\* the episode segment carries a hyphen-delimited suffix after its number
HasSuffix(id) ==
    /\ Len(split(EpisodeSegment(id), <<"-">>)) >= 2
    /\ split(EpisodeSegment(id), <<"-">>)[1] # <<>>

\* the composite id with the suffix of its episode segment dropped
WithoutSuffix(id) ==
    LET parts == split(id, <<"_">>)
    IN  join(<<"_">>, [parts EXCEPT ![Len(parts)] = split(parts[Len(parts)], <<"-">>)[1]])

\* C12: when the episode segment of the composite id carries a trailing
\* hyphen-delimited suffix, getEpId discards the suffix and resolves the same
\* episode as for the id without the suffix.
C12_SuffixDiscarded ==
    (call.fn = "getEpId" /\ HasSuffix(input.v.seriesID))
        => call.ret = getEpId(WithoutSuffix(input.v.seriesID), input.v.outcome)

\* a non-empty run of decimal digits
IsNumber(seg) == seg # <<>> /\ \A i \in 1..Len(seg) : seg[i] \in Digits

\* the number written with at least two digits
TwoDigits(seg) == IF Len(seg) = 1 THEN <<"0">> \o seg ELSE seg

\* the season and the episode (hyphen suffix dropped) of a composite id
SeasonOf(id) == split(id, <<"_">>)[Len(split(id, <<"_">>)) - 1]
EpisodeOf(id) == split(EpisodeSegment(id), <<"-">>)[1]

\* the id parses as a composite id: at least two underscore segments, the last
\* two of them numbers
ParsesAsComposite(id) ==
    /\ Len(split(id, <<"_">>)) >= 2
    /\ IsNumber(SeasonOf(id))
    /\ IsNumber(EpisodeOf(id))

\* C15: for every composite id format_season_episode returns 'S' + the season
\* as two digits + 'E' + the episode as two digits, from the last two
\* underscore segments with a hyphen suffix on the episode dropped; for every
\* id that does not parse as a composite id it returns 'S00E00'.
C15_SeasonEpisodeFormat ==
    call.fn = "format_season_episode"
        => IF ParsesAsComposite(input.v)
           THEN call.ret = <<"S">> \o TwoDigits(SeasonOf(input.v))
                           \o <<"E">> \o TwoDigits(EpisodeOf(input.v))
           ELSE call.ret = <<"S","0","0","E","0","0">>

-----------------------------------------------------------------------------
(* Claims about parse_content_rating, checked under SpecFn                 *)

\* C13: for every document parse_content_rating returns a mapping with a
\* classification label and a severity for each of the five categories: with
\* the 'Motion Picture Rating' node absent, or present without a following
\* sibling or without the 'Rated' token, the label is 'Unknown' and the five
\* categories are still parsed; a category whose label is absent gets none.
C13_ParseNeverFails ==
    (call.fn = "scrape_movie" /\ input.v.ok /\ ~input.v.soup.prettify_raises)
        => LET d == call.sections_data
               soup == input.v.soup
           IN  /\ Len(d) = 1 + Len(content_categories)
               /\ d[1].k = s_mpa_rating
               /\ (\/ ~soup.mpa.found
                   \/ ~soup.mpa.sibling
                   \/ ~Contains(<<"R","a","t","e","d"," ">>, soup.mpa.text)) => d[1].v = s_Unknown
               /\ \A i \in 1..Len(content_categories) :
                      /\ d[i + 1].v \in Labels
                      /\ ~soup.cats[i].label => d[i + 1].v = s_none

\* the ordered substring rules of the specification, first match wins
SeverityRule(text) ==
    IF Contains(<<"s","e","v","e","r","e">>, text) \/ Contains(<<"s","t","r","o","n","g">>, text) THEN s_strong
    ELSE IF Contains(<<"m","o","d","e","r","a","t","e">>, text) THEN s_moderate
    ELSE IF Contains(<<"m","i","l","d">>, text) THEN s_mild
    ELSE IF Contains(<<"m","i","n","i","m","a","l">>, text) \/ Contains(<<"v","e","r","y"," ","m","i","l","d">>, text) THEN s_minimal
    ELSE s_none

\* C19: parse_content_rating normalizes the lower-cased text that follows a
\* category label by the ordered substring rules, first match wins
\* (severe|strong, moderate, mild, minimal|very mild, else none), and the
\* result is always one of the five severity tiers.
C19_NormalizationRules ==
    (call.fn = "scrape_movie" /\ call.sections_data # <<>>)
        => \A i \in 1..Len(content_categories) :
               (input.v.soup.cats[i].label /\ input.v.soup.cats[i].next)
                   => /\ call.sections_data[i + 1].v
                             = SeverityRule(lower(strip(input.v.soup.cats[i].text)))
                      /\ call.sections_data[i + 1].v \in Labels

\* a text with a moderate word before a severe word normalizes to strong
C19_Witness ==
    /\ call.fn = "scrape_movie"
    /\ call.sections_data # <<>>
    /\ input.v.soup.cats[3].text = <<" ","m","o","d","e","r","a","t","e"," ","t","o"," ","s","e","v","e","r","e","\n">>
    /\ call.sections_data[4].v = s_strong

-----------------------------------------------------------------------------
(* Claims about get_rating_reasons, checked under SpecFn                   *)

\* the text a description dict puts under the header of a category (<<>> when
\* the dict has no such header)
TextUnder(d, category) ==
    IF \E i \in 1..Len(d) : d[i].k = category
    THEN capitalize(d[CHOOSE i \in 1..Len(d) : d[i].k = category].v)
    ELSE <<>>

\* the entries of the categories that qualify, in the given order
RECURSIVE ExpectedReasons(_, _)
ExpectedReasons(categories, d) ==
    IF categories = <<>> THEN <<>>
    ELSE LET text == TextUnder(d, Head(categories))
         IN  (IF strip(text) # <<>> /\ determine_severity(text) # s_none
              THEN << title(Head(categories)) \o <<" ","(">> \o determine_severity(text)
                      \o <<")">> >>
              ELSE <<>>)
             \o ExpectedReasons(Tail(categories), d)

FixedOrder == <<s_nudity, s_violence, s_profanity, s_frightening, s_alcohol>>

\* C14: for a description of bracketed category blocks get_rating_reasons
\* returns the entries '<CategoryTitle> (<severity>)' of exactly the scored
\* categories whose header is present with non-empty text classifying as
\* other than none, in the order nudity, violence, profanity, frightening,
\* alcohol, joined by ', ', and 'Suitable for all ages' exactly when no
\* category qualifies.
C14_ReasonsOfQualifyingCategories ==
    call.fn = "get_rating_reasons"
        => IF ExpectedReasons(FixedOrder, input.v) = <<>>
           THEN call.ret = <<"S","u","i","t","a","b","l","e"," ","f","o","r"," ","a","l","l"," ","a","g","e","s">>
           ELSE call.ret = join(<<","," ">>, ExpectedReasons(FixedOrder, input.v))

\* only '[Violence]' carries 'Moderate', the other four carry 'None'
C14_Witness ==
    /\ call.fn = "get_rating_reasons"
    /\ input.v = Dict5(s_none, s_moderate, s_none, s_none, s_none)
    /\ call.ret = <<"V","i","o","l","e","n","c","e"," ","(","m","o","d","e","r","a","t","e",")">>

\* the scored category behind each entry of content_categories
ParsedCategoryNames == <<s_nudity, s_violence, s_profanity, s_alcohol, s_frightening>>

\* C18: for the description scrape_movie renders from the parsed categories,
\* get_rating_reasons reports every scored category whose parsed severity is
\* other than none and no other category (a page whose violence label parses
\* to moderate yields a reasons string containing 'Violence (moderate)'), and
\* the reasons string is 'Suitable for all ages' only when all five parsed
\* severities are none.
C18_ReasonsFollowParsedSeverities ==
    (call.fn = "addon_meta" /\ call.resp.status = 200 /\ call.sections_data # <<>>)
        => LET d == call.sections_data
               reasons == call.resp.meta.ageRatingReason
           IN  /\ \A i \in 1..Len(ParsedCategoryNames) :
                      Contains(title(ParsedCategoryNames[i]) \o <<" ","(">> \o d[i + 1].v \o <<")">>,
                               reasons)
                          <=> d[i + 1].v # s_none
               /\ reasons = <<"S","u","i","t","a","b","l","e"," ","f","o","r"," ","a","l","l"," ","a","g","e","s">>
                      => \A i \in 1..Len(ParsedCategoryNames) : d[i + 1].v = s_none

-----------------------------------------------------------------------------
(* Claims about concurrent lookups, checked under SpecConc                 *)

\* a step in which the call of thread t reads the cache
ReadsCache(t) == req[t].pc = "lookup" /\ req'[t].pc # "lookup"

\* a step in which the call of thread t writes the cache and returns
WritesCache(t) == req[t].pc = "store" /\ req'[t].pc = "returned"

\* the id has an entry that has not expired
HasEntry(key) == key \in DOMAIN cache /\ now < cache[key].expires

\* C16: once a computation has stored its entry, every lookup for the id made
\* before the entry's expiry returns the value of that entry without running
\* the pipeline, also when a lookup that started before the store is still in
\* flight and completes later: a cache read under an unexpired entry returns
\* its value without a fetch, and a lookup completing under an unexpired
\* entry leaves the value later lookups get as the entry had it.
C16_LaterLookupsReturnStoredValue ==
    [][\A t \in Threads :
          /\ (ReadsCache(t) /\ HasEntry(req[t].imdb_id))
                 => /\ req'[t].pc = "returned"
                    /\ req'[t].ret = Return(cache[req[t].imdb_id].value)
                    /\ ~req'[t].fetched.done
          /\ (WritesCache(t) /\ HasEntry(req[t].imdb_id))
                 => cache'[req[t].imdb_id].value = cache[req[t].imdb_id].value
      ]_vars

\* C16 as amended: every lookup that reads the cache while the id has an
\* unexpired entry returns the value the entry holds at that moment, without
\* running the pipeline and without changing the cache, whatever other
\* lookups are in flight.
C16_LookupReadsCurrentEntry ==
    [][\A t \in Threads :
          (ReadsCache(t) /\ HasEntry(req[t].imdb_id))
              => /\ req'[t].pc = "returned"
                 /\ req'[t].ret = Return(cache[req[t].imdb_id].value)
                 /\ ~req'[t].fetched.done
                 /\ cache' = cache
      ]_vars

\* a lookup has returned the stored value from the cache while the other
\* lookup for the same id, which missed before the store, has computed a
\* different value and is about to store it
C16_Witness ==
    \E t \in Threads : \E o \in Threads \ {t} :
        /\ req[t].pc = "returned"
        /\ req[t].hit
        /\ ~req[t].fetched.done
        /\ req[t].ret = Return(cache[req[t].imdb_id].value)
        /\ req[o].pc = "store"
        /\ req[o].imdb_id = req[t].imdb_id
        /\ req[o].ret.value # req[t].ret.value

\* C17: there is no single-flight deduplication: two concurrent lookups for
\* an id without a valid entry can both run the pipeline before either
\* stores; the cache holds one entry per id, and every store replaces the
\* entry of the id by the result of the storing computation with the expiry
\* now + TTL, so that after both have completed the entry holds the result
\* of the computation that stored last.
C17_LastStoreWins ==
    [][\A t \in Threads :
          WritesCache(t)
              => /\ DOMAIN cache' = DOMAIN cache \cup {req[t].imdb_id}
                 /\ cache'[req[t].imdb_id]
                        = [value |-> req[t].ret.value, expires |-> now + TTL]
                 /\ \A key \in DOMAIN cache \ {req[t].imdb_id} : cache'[key] = cache[key]
                 /\ req'[t].ret = Return(req[t].ret.value)
      ]_vars

\* both lookups missed, fetched and stored before any entry could expire, with
\* different results; the entry holds one of the two
C17_Witness ==
    /\ now = 0
    /\ \A t \in Threads :
           /\ req[t].pc = "returned"
           /\ req[t].imdb_id = tt1
           /\ ~req[t].hit
           /\ req[t].fetched.done
           /\ req[t].ret.kind = "return"
    /\ req["t1"].ret.value # req["t2"].ret.value
    /\ cache[tt1].value \in {req[t].ret.value : t \in Threads}

====
